---- MODULE Spec2Model ----
(***************************************************************************)
(* A model of shasta's LocalMarkerGraph2 (src/src/LocalMarkerGraph2.cpp):  *)
(* the vertex table (findVertex, addVertex, getKmerId) and the sequence    *)
(* aggregation of an edge (the two storeEdgeInfo overloads).               *)
(*                                                                         *)
(* The graph object holds references to three external tables given to its *)
(* constructor (markers, reads, globalMarkerGraphVertex) and the k-mer     *)
(* length k.  The tables are fixed data here; k and the global vertex      *)
(* table are chosen when the object is constructed.                        *)
(***************************************************************************)
EXTENDS Integers, Sequences, FiniteSets, TLC

VARIABLES
    k,                          \* LocalMarkerGraph2::k
    globalMarkerGraphVertex,    \* markerId -> global vertex id or the invalid sentinel
    vertices,                   \* the vertices, in creation order; a vertex_descriptor is an index
    vertexMap,                  \* LocalMarkerGraph2::vertexMap : vertexId -> vertex_descriptor
    edges,                      \* the edges, in creation order; an edge_descriptor is an index
    ret,                        \* the last call made on the graph and what it returned
    caller,                     \* the configuration of the SimpleBayesianConsensusCaller
    calls,                      \* thread -> the call it is in on the caller
    scratch                     \* the scratch state of the calls in progress

\* The state of the graph and the state of the consensus caller.
graphVars == <<k, globalMarkerGraphVertex, vertices, vertexMap, edges, ret>>
callerVars == <<caller, calls, scratch>>

vars == <<k, globalMarkerGraphVertex, vertices, vertexMap, edges, ret,
          caller, calls, scratch>>

-----------------------------------------------------------------------------
(* Bounds of the model.                                                    *)

\* Longest marker list handed to addVertex when the vertex operations are explored.
MaxMarkers == 3
\* Longest marker list handed to addVertex when an edge is explored.
MaxEdgeMarkers == 3

-----------------------------------------------------------------------------
(* The external tables.                                                    *)

\* boost::graph_traits<...>::null_vertex()
null_vertex == 0

\* The sentinel of globalMarkerGraphVertex meaning "this marker has no vertex".
invalidCompressedGlobalMarkerGraphVertexId == -1

\* read.baseCount of each of the two reads.
ReadLength == 520

ReadIds == {0, 1}

Complement(base) ==
    CASE base = "A" -> "T"
      [] base = "C" -> "G"
      [] base = "G" -> "C"
      [] base = "T" -> "A"

\* read.get(position), positions counted from 0.  Read 1 is the reverse
\* complement of read 0.
Read0Pattern == <<"A", "C", "G", "T", "T", "G", "A", "C", "C", "A", "G">>
Read0Base(position) == Read0Pattern[(position % Len(Read0Pattern)) + 1]

ReadGet(readId, position) ==
    IF readId = 0
    THEN Read0Base(position)
    ELSE Complement(Read0Base(ReadLength - 1 - position))

\* OrientedReadId: value = 2 * readId + strand.
OrientedReadIds == 0 .. 3
getReadId(orientedReadId) == orientedReadId \div 2
getStrand(orientedReadId) == orientedReadId % 2

\* Positions of the markers of read 0 on strand 0, by ordinal.
Strand0Positions == <<0, 1, 4, 7, 258>>
MarkersPerRead == Len(Strand0Positions)
Ordinals == 0 .. (MarkersPerRead - 1)

\* Oriented reads 0 and 3 spell the same bases, and so do 1 and 2.
SpellsRead0(orientedReadId) == orientedReadId \in {0, 3}

\* CompressedMarker::position of the marker (orientedReadId, ordinal): the
\* markers of the reverse strand are those of the forward strand, mirrored.
MarkerPositionOf(orientedReadId, ordinal, kk) ==
    IF SpellsRead0(orientedReadId)
    THEN Strand0Positions[ordinal + 1]
    ELSE ReadLength - kk - Strand0Positions[MarkersPerRead - ordinal]

\* CompressedMarker::kmerId of the marker (orientedReadId, ordinal).
MarkerKmerIdOf(orientedReadId, ordinal) ==
    IF SpellsRead0(orientedReadId)
    THEN <<11, 12, 11, 13, 12>>[ordinal + 1]
    ELSE <<22, 23, 21, 22, 21>>[ordinal + 1]

\* MarkerId: the index of a marker in the concatenation of all marker lists.
MarkerIds == 0 .. (4 * MarkersPerRead - 1)
MarkerIdOf(orientedReadId, ordinal) == orientedReadId * MarkersPerRead + ordinal

\* findMarkerId(markerId, markers): the (orientedReadId, ordinal) of a marker id.
findMarkerId(markerId) ==
    [orientedReadId |-> markerId \div MarkersPerRead,
     ordinal |-> markerId % MarkersPerRead]

\* markers.begin()[markerId]
MarkerAt(markerId) ==
    LET m == findMarkerId(markerId) IN
    [kmerId |-> MarkerKmerIdOf(m.orientedReadId, m.ordinal),
     position |-> MarkerPositionOf(m.orientedReadId, m.ordinal, k)]

\* markers.begin(orientedReadId.getValue())[ordinal]
MarkerOf(orientedReadId, ordinal) == MarkerAt(MarkerIdOf(orientedReadId, ordinal))

\* A global vertex table in which exactly the markers of `assigned` have a vertex.
GlobalVertexTable(assigned) ==
    [m \in MarkerIds |->
        IF m \in assigned THEN 100 + (m % MarkersPerRead)
        ELSE invalidCompressedGlobalMarkerGraphVertexId]

-----------------------------------------------------------------------------
(* Helpers on sequences.                                                   *)

Range(s) == {s[i] : i \in 1 .. Len(s)}

\* The sequences of length n, without repetition, over the set S.
RECURSIVE InjectiveSeqs(_, _)
InjectiveSeqs(S, n) ==
    IF n = 0 THEN {<<>>}
    ELSE {Append(s, x) : s \in InjectiveSeqs(S, n - 1), x \in S} \
         {s \in {Append(t, x) : t \in InjectiveSeqs(S, n - 1), x \in S} :
             \E i, j \in 1 .. n : i < j /\ s[i] = s[j]}

InjectiveSeqsUpTo(S, n) == UNION {InjectiveSeqs(S, i) : i \in 0 .. n}

Increasing(s) == \A i, j \in 1 .. Len(s) : i < j => s[i] < s[j]

-----------------------------------------------------------------------------
(* The state after construction.                                           *)

\* No consensus caller is used while a graph is explored.
NoConsensusCaller ==
    /\ caller = <<>>
    /\ calls = <<>>
    /\ scratch = <<>>

InitGraph ==
    /\ vertices = <<>>
    /\ vertexMap = <<>>
    /\ edges = <<>>
    /\ ret = [op |-> "constructor"]
    /\ NoConsensusCaller

-----------------------------------------------------------------------------
(* findVertex                                                              *)

findVertexResult(vertexId) ==
    IF vertexId \notin DOMAIN vertexMap
    THEN [found |-> FALSE, v |-> null_vertex]
    ELSE [found |-> TRUE, v |-> vertexMap[vertexId]]

findVertex(vertexId) ==
    /\ ret' = [op |-> "findVertex", vertexId |-> vertexId,
               result |-> findVertexResult(vertexId)]
    /\ UNCHANGED <<callerVars, k, globalMarkerGraphVertex, vertices, vertexMap, edges>>

-----------------------------------------------------------------------------
(* addVertex                                                               *)

\* A variant of VertexExists that never finds the vertex (the assertion left out).
VertexExistsUnchecked(vertexId) == FALSE

\* The check of the assertion at the top of addVertex.
VertexExists(vertexId) == vertexId \in DOMAIN vertexMap

\* A variant of vertexMapInsert that records the descriptor before the new one.
vertexMapInsertPrevious(map, vertexId, v) ==
    IF vertexId \in DOMAIN map THEN map ELSE map @@ (vertexId :> (v - 1))

\* std::map::insert: an existing key keeps its value.
vertexMapInsert(map, vertexId, v) ==
    IF vertexId \in DOMAIN map THEN map ELSE map @@ (vertexId :> v)

\* The markerInfos filled in by addVertex: the supplied markers in the order given.
MarkerInfosOf(vertexMarkers) ==
    [i \in 1 .. Len(vertexMarkers) |->
        [markerId |-> vertexMarkers[i],
         orientedReadId |-> findMarkerId(vertexMarkers[i]).orientedReadId,
         ordinal |-> findMarkerId(vertexMarkers[i]).ordinal]]

addVertex(vertexId, distance, vertexMarkers) ==
    IF VertexExists(vertexId)
    THEN /\ ret' = [op |-> "addVertex", vertexId |-> vertexId, failed |-> TRUE,
                    v |-> null_vertex]
         /\ UNCHANGED <<callerVars, k, globalMarkerGraphVertex, vertices, vertexMap, edges>>
    ELSE LET v == Len(vertices) + 1 IN
         /\ vertices' = Append(vertices,
                [vertexId |-> vertexId, distance |-> distance,
                 markerInfos |-> MarkerInfosOf(vertexMarkers)])
         /\ vertexMap' = vertexMapInsert(vertexMap, vertexId, v)
         /\ ret' = [op |-> "addVertex", vertexId |-> vertexId, failed |-> FALSE,
                    v |-> v]
         /\ UNCHANGED <<callerVars, k, globalMarkerGraphVertex, edges>>

-----------------------------------------------------------------------------
(* getKmerId                                                               *)

\* A variant of the loop of getKmerId that stops one marker early.
RECURSIVE AllMarkersButLastHaveKmerId(_, _, _)
AllMarkersButLastHaveKmerId(markerInfos, i, kmerId) ==
    IF i >= Len(markerInfos) THEN TRUE
    ELSE IF MarkerAt(markerInfos[i].markerId).kmerId # kmerId THEN FALSE
    ELSE AllMarkersButLastHaveKmerId(markerInfos, i + 1, kmerId)

\* The loop of getKmerId: every marker from index i on has k-mer id kmerId.
RECURSIVE AllMarkersHaveKmerId(_, _, _)
AllMarkersHaveKmerId(markerInfos, i, kmerId) ==
    IF i > Len(markerInfos) THEN TRUE
    ELSE IF MarkerAt(markerInfos[i].markerId).kmerId # kmerId THEN FALSE
    ELSE AllMarkersHaveKmerId(markerInfos, i + 1, kmerId)

getKmerIdResult(v) ==
    LET markerInfos == vertices[v].markerInfos IN
    IF markerInfos = <<>>
    THEN [failed |-> TRUE]
    ELSE LET kmerId == MarkerAt(markerInfos[1].markerId).kmerId IN
         IF AllMarkersHaveKmerId(markerInfos, 1, kmerId)
         THEN [failed |-> FALSE, kmerId |-> kmerId]
         ELSE [failed |-> TRUE]

getKmerId(v) ==
    /\ ret' = [op |-> "getKmerId", v |-> v, result |-> getKmerIdResult(v)]
    /\ UNCHANGED <<callerVars, k, globalMarkerGraphVertex, vertices, vertexMap, edges>>

-----------------------------------------------------------------------------
(* The vertex operations, explored on their own.                           *)

\* The vertex ids and marker lists handed to the vertex operations: markers of
\* two of the oriented reads, in any order, with equal and with different
\* k-mer ids.  The distance of a vertex is the number of vertices before it.
VertexIds == {7, 9}
VertexMarkerUniverse ==
    {MarkerIdOf(0, 0), MarkerIdOf(0, 1), MarkerIdOf(0, 2), MarkerIdOf(3, 0)}
VertexMarkerLists == InjectiveSeqsUpTo(VertexMarkerUniverse, MaxMarkers)

InitVertex ==
    /\ k = 4
    /\ globalMarkerGraphVertex = GlobalVertexTable(MarkerIds)
    /\ InitGraph

NextVertex ==
    \/ \E vertexId \in VertexIds, distance \in {Len(vertices)},
          vertexMarkers \in VertexMarkerLists :
            addVertex(vertexId, distance, vertexMarkers)
    \/ \E vertexId \in VertexIds \cup {8} : findVertex(vertexId)
    \/ \E v \in 1 .. Len(vertices) : getKmerId(v)

SpecVertex == InitVertex /\ [][NextVertex]_vars

-----------------------------------------------------------------------------
(* Edges.                                                                  *)

\* boost::add_edge(v0, v1, graph): a new edge with no infos and both flags false.
addEdge(v0, v1) ==
    /\ edges' = Append(edges,
            [source |-> v0, target |-> v1, infos |-> <<>>,
             isSpanningTreeEdge |-> FALSE, isSpanningTreeBestPathEdge |-> FALSE])
    /\ ret' = [op |-> "addEdge", e |-> Len(edges) + 1]
    /\ UNCHANGED <<callerVars, k, globalMarkerGraphVertex, vertices, vertexMap>>

\* LocalMarkerGraph2Edge::coverage(): the number of Infos over all groups.
RECURSIVE SumOfSizes(_, _)
SumOfSizes(infos, i) ==
    IF i > Len(infos) THEN 0 ELSE Len(infos[i].second) + SumOfSizes(infos, i + 1)

coverage(edge) == SumOfSizes(edge.infos, 1)

\* LocalMarkerGraph2Edge::consensus(): the size of the first group.
consensus(edge) == IF edge.infos = <<>> THEN 0 ELSE Len(edge.infos[1].second)

-----------------------------------------------------------------------------
(* storeEdgeInfo: the sequence implied by one oriented read.               *)

\* uint8_t(x) for x >= 0.
ToUint8(x) == x % 256

\* A variant of GapBases that leaves out complementInPlace on strand 1.
RECURSIVE GapBasesUncomplemented(_, _, _, _)
GapBasesUncomplemented(orientedReadId, position, endPosition, sequence) ==
    IF position = endPosition THEN sequence
    ELSE LET readLength == ReadLength
             base == IF getStrand(orientedReadId) = 0
                     THEN ReadGet(getReadId(orientedReadId), position)
                     ELSE ReadGet(getReadId(orientedReadId),
                                  readLength - 1 - position)
         IN GapBasesUncomplemented(orientedReadId, position + 1, endPosition,
                                   Append(sequence, base))

\* The loop that collects the bases between the two markers: the positions
\* from `position` up to, not including, `endPosition`.
RECURSIVE GapBases(_, _, _, _)
GapBases(orientedReadId, position, endPosition, sequence) ==
    IF position = endPosition THEN sequence
    ELSE LET readLength == ReadLength
             base == IF getStrand(orientedReadId) = 0
                     THEN ReadGet(getReadId(orientedReadId), position)
                     ELSE Complement(ReadGet(getReadId(orientedReadId),
                                             readLength - 1 - position))
         IN GapBases(orientedReadId, position + 1, endPosition,
                     Append(sequence, base))

\* The overlap count stored when the second marker begins at or before the
\* end of the first.
OverlappingBaseCount(marker0, marker1) ==
    ToUint8(marker0.position + k - marker1.position)

\* A variant of EdgeSequence that computes the overlap count before it
\* branches and keeps it beside the inserted bases.
EdgeSequenceKeepsCount(orientedReadId, marker0, marker1) ==
    IF marker1.position <= marker0.position + k
    THEN [overlappingBaseCount |-> OverlappingBaseCount(marker0, marker1),
          sequence |-> <<>>]
    ELSE [overlappingBaseCount |-> OverlappingBaseCount(marker0, marker1),
          sequence |-> GapBases(orientedReadId, marker0.position + k,
                                marker1.position, <<>>)]

\* "Fill in the sequence information."
EdgeSequence(orientedReadId, marker0, marker1) ==
    IF marker1.position <= marker0.position + k
    THEN [overlappingBaseCount |-> OverlappingBaseCount(marker0, marker1),
          sequence |-> <<>>]
    ELSE [overlappingBaseCount |-> 0,
          sequence |-> GapBases(orientedReadId, marker0.position + k,
                                marker1.position, <<>>)]

\* LocalMarkerGraph2Edge::Info(orientedReadId, ordinal0, ordinal1)
Info(orientedReadId, ordinal0, ordinal1) ==
    [orientedReadId |-> orientedReadId, ordinals |-> <<ordinal0, ordinal1>>]

\* Two Sequences are the same key of the table: neither is less than the other.
SameSequence(x, y) ==
    x.overlappingBaseCount = y.overlappingBaseCount /\ x.sequence = y.sequence

\* sequenceTable[sequence].push_back(info), sequenceTable a std::map.
TablePushBack(sequenceTable, sequence, info) ==
    IF \E key \in DOMAIN sequenceTable : SameSequence(key, sequence)
    THEN [sequenceTable EXCEPT
            ![CHOOSE key \in DOMAIN sequenceTable : SameSequence(key, sequence)] =
                Append(@, info)]
    ELSE sequenceTable @@ (sequence :> <<info>>)

-----------------------------------------------------------------------------
(* storeEdgeInfo(e): the scan of the two marker lists.                     *)

\* The end of the streak of markers of orientedReadId that begins at index i.
RECURSIVE StreakEnd(_, _, _)
StreakEnd(markerInfos, i, orientedReadId) ==
    IF i <= Len(markerInfos) /\ markerInfos[i].orientedReadId = orientedReadId
    THEN StreakEnd(markerInfos, i + 1, orientedReadId)
    ELSE i

\* A variant of InterveningVertexFound that looks at the first marker id only.
InterveningVertexFoundFirstOnly(markerId, markerId1) ==
    IF markerId = markerId1 THEN FALSE
    ELSE globalMarkerGraphVertex[markerId] #
         invalidCompressedGlobalMarkerGraphVertexId

\* The loop over the marker ids from markerId up to, not including, markerId1.
RECURSIVE InterveningVertexFound(_, _)
InterveningVertexFound(markerId, markerId1) ==
    IF markerId = markerId1 THEN FALSE
    ELSE IF globalMarkerGraphVertex[markerId] #
            invalidCompressedGlobalMarkerGraphVertexId
    THEN TRUE
    ELSE InterveningVertexFound(markerId + 1, markerId1)

\* A variant of StreaksQualify that does not look at the streak of the target.
StreaksQualifySourceOnly(markerInfos0, markerInfos1, it0, it1, it0StreakEnd, it1StreakEnd) ==
    /\ it0StreakEnd - it0 = 1
    /\ markerInfos0[it0].ordinal < markerInfos1[it1].ordinal

\* The condition under which a pair of streaks contributes an Info.
StreaksQualify(markerInfos0, markerInfos1, it0, it1, it0StreakEnd, it1StreakEnd) ==
    /\ it0StreakEnd - it0 = 1
    /\ it1StreakEnd - it1 = 1
    /\ markerInfos0[it0].ordinal < markerInfos1[it1].ordinal

\* The while loop of storeEdgeInfo(e), from the iterator positions it0, it1.
RECURSIVE ScanMarkers(_, _, _, _, _)
ScanMarkers(markerInfos0, markerInfos1, it0, it1, sequenceTable) ==
    IF it0 > Len(markerInfos0) \/ it1 > Len(markerInfos1) THEN sequenceTable
    ELSE
    LET orientedReadId0 == markerInfos0[it0].orientedReadId
        orientedReadId1 == markerInfos1[it1].orientedReadId
    IN
    IF orientedReadId0 < orientedReadId1
    THEN ScanMarkers(markerInfos0, markerInfos1, it0 + 1, it1, sequenceTable)
    ELSE IF orientedReadId1 < orientedReadId0
    THEN ScanMarkers(markerInfos0, markerInfos1, it0, it1 + 1, sequenceTable)
    ELSE
    LET orientedReadId == orientedReadId0
        it0StreakEnd == StreakEnd(markerInfos0, it0, orientedReadId)
        it1StreakEnd == StreakEnd(markerInfos1, it1, orientedReadId)
        markerId0 == markerInfos0[it0].markerId
        markerId1 == markerInfos1[it1].markerId
        stored ==
            IF /\ StreaksQualify(markerInfos0, markerInfos1, it0, it1,
                                 it0StreakEnd, it1StreakEnd)
               /\ ~InterveningVertexFound(markerId0 + 1, markerId1)
            THEN TablePushBack(sequenceTable,
                    EdgeSequence(orientedReadId, MarkerAt(markerId0),
                                 MarkerAt(markerId1)),
                    Info(orientedReadId, markerInfos0[it0].ordinal,
                         markerInfos1[it1].ordinal))
            ELSE sequenceTable
    IN ScanMarkers(markerInfos0, markerInfos1, it0StreakEnd, it1StreakEnd, stored)

-----------------------------------------------------------------------------
(* storeEdgeInfo: copying the table to the edge.                           *)

\* OrderPairsBySizeOfSecondGreater: x goes before y.
OrderPairsBySizeOfSecondGreater(x, y) == Len(x.second) > Len(y.second)

\* The (Sequence, Info-list) pairs of the table.
TablePairs(sequenceTable) ==
    {[first |-> sequence, second |-> sequenceTable[sequence]] :
        sequence \in DOMAIN sequenceTable}

\* A variant of InfosAfterClear that leaves the old infos in place.
InfosNotCleared(infos) == infos

\* What the old infos contribute to the new ones: edge.infos.clear().
InfosAfterClear(infos) == <<>>

\* A variant of SortOutcomes that leaves the pairs in any order.
SortOutcomesUnsorted(pairs) == InjectiveSeqs(pairs, Cardinality(pairs))

\* The orders std::sort may leave the pairs in: sort is not stable, so any
\* order that respects the comparison.
SortOutcomes(pairs) ==
    {s \in InjectiveSeqs(pairs, Cardinality(pairs)) :
        \A i, j \in 1 .. Len(s) :
            i < j => ~OrderPairsBySizeOfSecondGreater(s[j], s[i])}

\* clear, copy and sort: the values edge.infos may have after the call.
InfosOutcomes(infos, sequenceTable) ==
    {InfosAfterClear(infos) \o s : s \in SortOutcomes(TablePairs(sequenceTable))}

\* storeEdgeInfo(edge_descriptor)
storeEdgeInfo(e) ==
    LET v0 == edges[e].source
        v1 == edges[e].target
        sequenceTable == ScanMarkers(vertices[v0].markerInfos,
                                     vertices[v1].markerInfos, 1, 1, <<>>)
    IN
    /\ \E infos \in InfosOutcomes(edges[e].infos, sequenceTable) :
          edges' = [edges EXCEPT ![e].infos = infos]
    /\ ret' = [op |-> "storeEdgeInfo", e |-> e]
    /\ UNCHANGED <<callerVars, k, globalMarkerGraphVertex, vertices, vertexMap>>

\* The loop of storeEdgeInfo(e, infoVector) over the Infos from index i on.
RECURSIVE ScanInfoVector(_, _, _)
ScanInfoVector(infoVector, i, sequenceTable) ==
    IF i > Len(infoVector) THEN sequenceTable
    ELSE
    LET info == infoVector[i]
        marker0 == MarkerOf(info.orientedReadId, info.ordinals[1])
        marker1 == MarkerOf(info.orientedReadId, info.ordinals[2])
    IN ScanInfoVector(infoVector, i + 1,
            TablePushBack(sequenceTable,
                EdgeSequence(info.orientedReadId, marker0, marker1), info))

\* storeEdgeInfo(edge_descriptor, const vector<Info>&)
storeEdgeInfoVector(e, infoVector) ==
    LET sequenceTable == ScanInfoVector(infoVector, 1, <<>>) IN
    /\ \E infos \in InfosOutcomes(edges[e].infos, sequenceTable) :
          edges' = [edges EXCEPT ![e].infos = infos]
    /\ ret' = [op |-> "storeEdgeInfoVector", e |-> e, infoVector |-> infoVector]
    /\ UNCHANGED <<callerVars, k, globalMarkerGraphVertex, vertices, vertexMap>>

-----------------------------------------------------------------------------
(* One edge between two vertices, explored with k = 4.                     *)

\* The markers the vertices are made of: three markers of oriented read 0 and
\* two markers of each of the oriented reads 1 and 2.
EdgeMarkerUniverse ==
    {MarkerIdOf(0, 0), MarkerIdOf(0, 2), MarkerIdOf(0, 3),
     MarkerIdOf(1, 1), MarkerIdOf(1, 3),
     MarkerIdOf(2, 1), MarkerIdOf(2, 3)}

\* The marker lists handed to addVertex: sorted by marker id, as the global
\* marker graph stores them, one list sorted by oriented read but not by
\* ordinal, and one list that is not sorted by oriented read.
EdgeMarkerLists ==
    {s \in InjectiveSeqsUpTo(EdgeMarkerUniverse, MaxEdgeMarkers) : Increasing(s)}
    \cup {<<MarkerIdOf(0, 2), MarkerIdOf(0, 0)>>,
          <<MarkerIdOf(1, 1), MarkerIdOf(0, 0)>>}

\* The markers between two markers of a vertex that may lack a global vertex.
InterveningMarkers == {MarkerIdOf(0, 1), MarkerIdOf(1, 2), MarkerIdOf(2, 2)}

\* The Info vectors handed to storeEdgeInfo(e, infoVector).
EdgeInfoVectors ==
    {<<>>,
     <<Info(0, 0, 2)>>,
     <<Info(1, 1, 3), Info(0, 2, 3), Info(2, 1, 3)>>}

InitEdge ==
    /\ k = 4
    /\ globalMarkerGraphVertex \in
          {GlobalVertexTable(MarkerIds \ unassigned) :
              unassigned \in {{}, {MarkerIdOf(0, 1)}, InterveningMarkers}}
    /\ InitGraph

NextEdge ==
    \/ \E vertexId \in {Len(vertices)}, distance \in {Len(vertices)},
          vertexMarkers \in EdgeMarkerLists :
            /\ Len(vertices) < 2
            /\ addVertex(vertexId, distance, vertexMarkers)
    \/ \E v0 \in 1 .. Len(vertices), v1 \in 1 .. Len(vertices) :
            /\ Len(vertices) = 2
            /\ edges = <<>>
            /\ addEdge(v0, v1)
    \/ \E e \in 1 .. Len(edges) : storeEdgeInfo(e)
    \/ \E e \in 1 .. Len(edges), infoVector \in EdgeInfoVectors :
            storeEdgeInfoVector(e, infoVector)

SpecEdge == InitEdge /\ [][NextEdge]_vars

-----------------------------------------------------------------------------
(* One edge between two vertices, explored with k = 258.                   *)

\* The markers the vertices are made of: the first two markers of oriented
\* read 0 and the second and the last marker of oriented read 3.
OverlapMarkerUniverse ==
    {MarkerIdOf(0, 0), MarkerIdOf(0, 1), MarkerIdOf(3, 1), MarkerIdOf(3, 4)}

OverlapMarkerLists ==
    {s \in InjectiveSeqsUpTo(OverlapMarkerUniverse, MaxEdgeMarkers) : Increasing(s)}

OverlapInfoVectors ==
    {<<Info(0, 0, 1), Info(3, 1, 4)>>,
     <<Info(0, 1, 2), Info(3, 4, 0)>>}

InitOverlap ==
    /\ k = 258
    /\ globalMarkerGraphVertex = GlobalVertexTable(OverlapMarkerUniverse)
    /\ InitGraph

NextOverlap ==
    \/ \E vertexId \in {Len(vertices)}, distance \in {Len(vertices)},
          vertexMarkers \in OverlapMarkerLists :
            /\ Len(vertices) < 2
            /\ addVertex(vertexId, distance, vertexMarkers)
    \/ \E v0 \in 1 .. Len(vertices), v1 \in 1 .. Len(vertices) :
            /\ Len(vertices) = 2
            /\ edges = <<>>
            /\ addEdge(v0, v1)
    \/ \E e \in 1 .. Len(edges) : storeEdgeInfo(e)
    \/ \E e \in 1 .. Len(edges), infoVector \in OverlapInfoVectors :
            storeEdgeInfoVector(e, infoVector)

SpecOverlap == InitOverlap /\ [][NextOverlap]_vars

-----------------------------------------------------------------------------
(* computeOptimalSpanningTree                                              *)

\* A variant of ClearSpanningTreeFlags that leaves the marks of an earlier run.
KeepSpanningTreeFlags(edgeSeq) == edgeSeq

\* The first loop of computeOptimalSpanningTree: every edge is unmarked.
ClearSpanningTreeFlags(edgeSeq) ==
    [e \in 1 .. Len(edgeSeq) |-> [edgeSeq[e] EXCEPT !.isSpanningTreeEdge = FALSE]]

\* OrderPairsBySecondOnlyGreater: x goes before y.
OrderPairsBySecondOnlyGreater(x, y) == x.second > y.second

\* A variant of EdgeTablePairs that gathers the edges of positive coverage only.
EdgeTablePairsCovered ==
    {[first |-> e, second |-> coverage(edges[e])] :
        e \in {f \in 1 .. Len(edges) : coverage(edges[f]) > 0}}

\* The pairs (edge_descriptor, coverage) gathered from the edges.
EdgeTablePairs ==
    {[first |-> e, second |-> coverage(edges[e])] : e \in 1 .. Len(edges)}

\* A variant of EdgeTableOutcomes that leaves the table in any order.
EdgeTableUnsorted(pairs) == InjectiveSeqs(pairs, Cardinality(pairs))

\* The orders std::sort may leave the edge table in: any order that respects
\* the comparison.
EdgeTableOutcomes(pairs) ==
    {s \in InjectiveSeqs(pairs, Cardinality(pairs)) :
        \A i, j \in 1 .. Len(s) :
            i < j => ~OrderPairsBySecondOnlyGreater(s[j], s[i])}

\* disjointSets.make_set(i) for every i in [0, n): each index is its own set.
MakeSets(n) == [i \in 0 .. (n - 1) |-> i]

\* disjointSets.find_set(i): the representative of the set of i.
find_set(disjointSets, i) == disjointSets[i]

\* A variant of union_set that leaves the sets as they are.
union_setForgets(disjointSets, i0, i1) == disjointSets

\* disjointSets.union_set(i0, i1): the two sets become one.
union_set(disjointSets, i0, i1) ==
    [i \in DOMAIN disjointSets |->
        IF disjointSets[i] = disjointSets[i1] THEN disjointSets[i0]
        ELSE disjointSets[i]]

\* A variant of InSeparateComponents that accepts every edge but a self-loop.
InSeparateComponentsUnchecked(disjointSets, i0, i1) == i0 # i1

\* The test made on an edge: its two vertices are in two different sets.
InSeparateComponents(disjointSets, i0, i1) ==
    find_set(disjointSets, i0) # find_set(disjointSets, i1)

\* The loop over the sorted edge table, from index i on.
RECURSIVE ProcessEdgeTable(_, _, _, _)
ProcessEdgeTable(edgeTable, i, disjointSets, edgeSeq) ==
    IF i > Len(edgeTable) THEN edgeSeq
    ELSE
    LET e == edgeTable[i].first
        i0 == edgeSeq[e].source - 1
        i1 == edgeSeq[e].target - 1
    IN
    IF InSeparateComponents(disjointSets, i0, i1)
    THEN ProcessEdgeTable(edgeTable, i + 1, union_set(disjointSets, i0, i1),
            [edgeSeq EXCEPT ![e].isSpanningTreeEdge = TRUE])
    ELSE ProcessEdgeTable(edgeTable, i + 1, disjointSets, edgeSeq)

computeOptimalSpanningTree ==
    /\ \E edgeTable \in EdgeTableOutcomes(EdgeTablePairs) :
        /\ edges' = ProcessEdgeTable(edgeTable, 1, MakeSets(Len(vertices)),
                        ClearSpanningTreeFlags(edges))
        /\ ret' = [op |-> "computeOptimalSpanningTree", edgeTable |-> edgeTable]
    /\ UNCHANGED <<callerVars, k, globalMarkerGraphVertex, vertices, vertexMap>>

-----------------------------------------------------------------------------
(* computeOptimalSpanningTreeBestPath                                      *)

\* SpanningTreeFilter: the filtered graph keeps the spanning tree edges.
SpanningTreeFilter(e) == edges[e].isSpanningTreeEdge

\* boost::topological_sort on the filtered graph: a depth first search that
\* outputs a vertex when it is finished and throws not_a_dag on a back edge.
\* color: 0 white, 1 gray, 2 black.
RECURSIVE DfsVisit(_, _)
RECURSIVE DfsOutEdges(_, _, _)
DfsOutEdges(u, e, st) ==
    IF e > Len(edges) \/ st.notADag THEN st
    ELSE IF ~(edges[e].source = u /\ SpanningTreeFilter(e))
    THEN DfsOutEdges(u, e + 1, st)
    ELSE LET w == edges[e].target IN
         IF st.color[w] = 0 THEN DfsOutEdges(u, e + 1, DfsVisit(w, st))
         ELSE IF st.color[w] = 1 THEN [st EXCEPT !.notADag = TRUE]
         ELSE DfsOutEdges(u, e + 1, st)

DfsVisit(u, st) ==
    LET discovered == [st EXCEPT !.color[u] = 1]
        explored == DfsOutEdges(u, 1, discovered)
    IN IF explored.notADag THEN explored
       ELSE [explored EXCEPT !.color[u] = 2, !.out = Append(@, u)]

\* The search started from every vertex that is still white, in vertex order.
RECURSIVE DfsAll(_, _)
DfsAll(u, st) ==
    IF u > Len(vertices) \/ st.notADag THEN st
    ELSE IF st.color[u] = 0 THEN DfsAll(u + 1, DfsVisit(u, st))
    ELSE DfsAll(u + 1, st)

topological_sort ==
    DfsAll(1, [color |-> [v \in 1 .. Len(vertices) |-> 0], out |-> <<>>,
               notADag |-> FALSE])

\* A variant of Reverse that leaves the sequence as it is.
NotReversed(s) == s

\* std::reverse
Reverse(s) == [i \in 1 .. Len(s) |-> s[Len(s) + 1 - i]]

\* A variant of BestPredecessor that takes the last in-edge it finds.
RECURSIVE BestPredecessorLastFound(_, _, _, _)
BestPredecessorLastFound(v0, e, vertexTable, p) ==
    IF e > Len(edges) \/ p.failed THEN p
    ELSE IF ~(edges[e].target = v0 /\ SpanningTreeFilter(e))
    THEN BestPredecessorLastFound(v0, e + 1, vertexTable, p)
    ELSE LET v1 == edges[e].source IN
         IF v1 \notin DOMAIN vertexTable THEN [p EXCEPT !.failed = TRUE]
         ELSE BestPredecessorLastFound(v0, e + 1, vertexTable,
                    [p EXCEPT !.first = v1, !.second = vertexTable[v1].second + 1])

\* The loop over the in-edges of v0 in the filtered graph, from edge e on:
\* the pair (predecessor, distance) of v0, or the failure of the assertion.
RECURSIVE BestPredecessor(_, _, _, _)
BestPredecessor(v0, e, vertexTable, p) ==
    IF e > Len(edges) \/ p.failed THEN p
    ELSE IF ~(edges[e].target = v0 /\ SpanningTreeFilter(e))
    THEN BestPredecessor(v0, e + 1, vertexTable, p)
    ELSE LET v1 == edges[e].source IN
         IF v1 \notin DOMAIN vertexTable THEN [p EXCEPT !.failed = TRUE]
         ELSE IF vertexTable[v1].second + 1 > p.second
         THEN BestPredecessor(v0, e + 1, vertexTable,
                    [p EXCEPT !.first = v1, !.second = vertexTable[v1].second + 1])
         ELSE BestPredecessor(v0, e + 1, vertexTable, p)

\* std::map::insert into vertexTable.
vertexTableInsert(vertexTable, v0, p) ==
    IF v0 \in DOMAIN vertexTable THEN vertexTable
    ELSE vertexTable @@ (v0 :> [first |-> p.first, second |-> p.second])

\* The loop over the topologically sorted vertices, from index i on.
RECURSIVE FillVertexTable(_, _, _)
FillVertexTable(sorted, i, t) ==
    IF i > Len(sorted) \/ t.failed THEN t
    ELSE LET v0 == sorted[i]
             p == BestPredecessor(v0, 1, t.vertexTable,
                    [first |-> null_vertex, second |-> 0, failed |-> FALSE])
         IN IF p.failed THEN [t EXCEPT !.failed = TRUE]
            ELSE FillVertexTable(sorted, i + 1,
                    [t EXCEPT !.vertexTable = vertexTableInsert(@, v0, p)])

\* A variant of FindLastPathVertex that takes the last vertex of maximum distance.
RECURSIVE FindLastPathVertexLastFound(_, _, _)
FindLastPathVertexLastFound(v, vertexTable, last) ==
    IF v > Len(vertices) \/ last.failed THEN last
    ELSE IF v \notin DOMAIN vertexTable THEN [last EXCEPT !.failed = TRUE]
    ELSE IF vertexTable[v].second >= last.distance /\ vertexTable[v].second > 0
    THEN FindLastPathVertexLastFound(v + 1, vertexTable,
            [last EXCEPT !.vertex = v, !.distance = vertexTable[v].second])
    ELSE FindLastPathVertexLastFound(v + 1, vertexTable, last)

\* The loop over all vertices, from vertex v on, that finds where the longest
\* path ends, or the failure of the assertion.
RECURSIVE FindLastPathVertex(_, _, _)
FindLastPathVertex(v, vertexTable, last) ==
    IF v > Len(vertices) \/ last.failed THEN last
    ELSE IF v \notin DOMAIN vertexTable THEN [last EXCEPT !.failed = TRUE]
    ELSE IF vertexTable[v].second > last.distance
    THEN FindLastPathVertex(v + 1, vertexTable,
            [last EXCEPT !.vertex = v, !.distance = vertexTable[v].second])
    ELSE FindLastPathVertex(v + 1, vertexTable, last)

\* A variant of EdgeLookup that finds the first edge between v0 and v1 in
\* either direction.
EdgeLookupEitherDirection(v0, v1) ==
    LET found == {e \in 1 .. Len(edges) :
                    \/ edges[e].source = v0 /\ edges[e].target = v1
                    \/ edges[e].source = v1 /\ edges[e].target = v0}
    IN IF found = {} THEN [edgeWasFound |-> FALSE, e |-> 0]
       ELSE [edgeWasFound |-> TRUE,
             e |-> CHOOSE e \in found : \A f \in found : e <= f]

\* boost::edge(v0, v1, graph): the first edge from v0 to v1 in the whole
\* graph, and whether there is one.
EdgeLookup(v0, v1) ==
    LET found == {e \in 1 .. Len(edges) :
                    edges[e].source = v0 /\ edges[e].target = v1}
    IN IF found = {} THEN [edgeWasFound |-> FALSE, e |-> 0]
       ELSE [edgeWasFound |-> TRUE,
             e |-> CHOOSE e \in found : \A f \in found : e <= f]

\* The while loop that constructs the longest path backward from vertex v.
\* vertexTable[v1] inserts (null_vertex, 0) for a vertex that is not there.
RECURSIVE ConstructLongestPath(_, _, _)
ConstructLongestPath(v, vertexTable, path) ==
    IF v = null_vertex THEN path
    ELSE LET v1 == v
             v0 == IF v1 \in DOMAIN vertexTable THEN vertexTable[v1].first
                   ELSE null_vertex
         IN IF v0 = null_vertex THEN path
            ELSE LET found == EdgeLookup(v0, v1) IN
                 IF ~found.edgeWasFound THEN [path EXCEPT !.failed = TRUE]
                 ELSE ConstructLongestPath(v0, vertexTable,
                        [path EXCEPT !.longestPath = Append(@, found.e)])

\* The last loop: the edges of the longest path are marked.
MarkLongestPath(edgeSeq, longestPath) ==
    [e \in 1 .. Len(edgeSeq) |->
        IF e \in Range(longestPath)
        THEN [edgeSeq[e] EXCEPT !.isSpanningTreeBestPathEdge = TRUE]
        ELSE edgeSeq[e]]

\* The whole computation: what fails, and what is computed when nothing does.
BestPathComputation ==
    LET sort == topological_sort IN
    IF sort.notADag THEN [failed |-> "topological_sort"]
    ELSE
    LET topologicallySortedVertices == Reverse(sort.out)
        table == FillVertexTable(topologicallySortedVertices, 1,
                    [vertexTable |-> <<>>, failed |-> FALSE])
    IN
    IF table.failed THEN [failed |-> "predecessor"]
    ELSE
    LET last == FindLastPathVertex(1, table.vertexTable,
                    [vertex |-> null_vertex, distance |-> 0, failed |-> FALSE])
    IN
    IF last.failed THEN [failed |-> "vertexTable"]
    ELSE
    LET path == ConstructLongestPath(last.vertex, table.vertexTable,
                    [longestPath |-> <<>>, failed |-> FALSE])
    IN
    IF path.failed THEN [failed |-> "edge"]
    ELSE [failed |-> "no",
          topologicallySortedVertices |-> topologicallySortedVertices,
          vertexTable |-> table.vertexTable,
          lastPathVertex |-> last.vertex,
          lastPathVertexDistance |-> last.distance,
          longestPath |-> Reverse(path.longestPath)]

computeOptimalSpanningTreeBestPath ==
    LET result == BestPathComputation IN
    /\ edges' = IF result.failed = "no"
                THEN MarkLongestPath(edges, result.longestPath)
                ELSE edges
    /\ ret' = [op |-> "computeOptimalSpanningTreeBestPath", result |-> result]
    /\ UNCHANGED <<callerVars, k, globalMarkerGraphVertex, vertices, vertexMap>>

-----------------------------------------------------------------------------
(* A graph of up to four vertices, explored with k = 4.                    *)

\* Most edges the graph is given.
MaxTreeEdges == 3

\* The marker lists of the vertices, in the order the vertices are added.
\* Oriented read 0 is on the first three vertices, oriented read 1 on the first
\* and the third, oriented read 3 on the second and the third, and oriented
\* read 2 on the last vertex alone.
TreeVertexMarkers ==
    <<<<MarkerIdOf(0, 0), MarkerIdOf(1, 3)>>,
      <<MarkerIdOf(0, 2), MarkerIdOf(3, 2)>>,
      <<MarkerIdOf(0, 3), MarkerIdOf(1, 4), MarkerIdOf(3, 3)>>,
      <<MarkerIdOf(2, 3)>>>>

\* The (source, target) pairs edges are added between, in the order in which
\* the edges are added: a chain, a chord, an edge against the chain and a
\* self-loop; a pair may be used more than once.
TreeEdgeEnds ==
    <<<<1, 2>>, <<2, 3>>, <<1, 3>>, <<4, 3>>, <<2, 1>>, <<1, 1>>>>

\* The place of the (source, target) pair of an edge in TreeEdgeEnds.
EndsIndex(edge) ==
    CHOOSE i \in 1 .. Len(TreeEdgeEnds) :
        TreeEdgeEnds[i] = <<edge.source, edge.target>>

\* The Info vector handed to storeEdgeInfo(e, infoVector): no observation.
TreeInfoVectors == {<<>>}

InitTree ==
    /\ k = 4
    /\ globalMarkerGraphVertex =
          GlobalVertexTable(UNION {Range(TreeVertexMarkers[i]) :
                                      i \in 1 .. Len(TreeVertexMarkers)})
    /\ InitGraph

NextTree ==
    \/ \E vertexId \in {Len(vertices)}, distance \in {Len(vertices)} :
            /\ Len(vertices) < Len(TreeVertexMarkers)
            /\ addVertex(vertexId, distance, TreeVertexMarkers[Len(vertices) + 1])
    \/ \E i \in 1 .. Len(TreeEdgeEnds) :
            /\ Len(vertices) = Len(TreeVertexMarkers)
            /\ Len(edges) < MaxTreeEdges
            /\ edges # <<>> => EndsIndex(edges[Len(edges)]) <= i
            /\ addEdge(TreeEdgeEnds[i][1], TreeEdgeEnds[i][2])
    \/ \E e \in 1 .. Len(edges) : storeEdgeInfo(e)
    \/ \E e \in 1 .. Len(edges), infoVector \in TreeInfoVectors :
            storeEdgeInfoVector(e, infoVector)
    \/ computeOptimalSpanningTree
    \/ computeOptimalSpanningTreeBestPath

SpecTree == InitTree /\ [][NextTree]_vars

-----------------------------------------------------------------------------
(* SimpleBayesianConsensusCaller (src/src/SimpleBayesianConsensusCaller.hpp). *)
(* The header declares the class; the prediction methods are modelled from    *)
(* the description of the run-length caller.  Log probabilities are integers. *)

\* The values of AlignedBase, in the order that breaks ties; "-" is the gap.
AlignedBases == <<"A", "C", "G", "T", "-">>

\* An observation of a Coverage: the base, the strand and the repeat count.
Observation(base, strand, repeatCount) ==
    [base |-> base, strand |-> strand, repeatCount |-> repeatCount]

\* The matrix that belongs to a base read on a strand: the base itself on
\* strand 0, its complement on strand 1.
MatrixBase(base, strand) == IF strand = 0 THEN base ELSE Complement(base)

\* The prior that belongs to a base: one for A and T, one for C and G.
PriorIndex(base) == IF base \in {"A", "T"} THEN 0 ELSE 1

\* factor_repeats: the number of times each repeat count was observed on
\* each strand.  With a consensus base only the observations of that base are
\* counted; a gap is counted as repeat count 0 when count_gaps_as_zeros is set.
RECURSIVE factor_repeats(_, _, _, _, _)
factor_repeats(config, cov, consensusBase, i, factored_repeats) ==
    IF i > Len(cov) THEN factored_repeats
    ELSE
    LET observation == cov[i]
        counted ==
            IF observation.base # "-"
            THEN (~config.ignore_non_consensus_base_repeats)
                 \/ observation.base = consensusBase
            ELSE config.count_gaps_as_zeros
        repeatCount == IF observation.base # "-" THEN observation.repeatCount ELSE 0
        key == <<observation.strand, repeatCount>>
        next ==
            IF ~counted THEN factored_repeats
            ELSE IF key \in DOMAIN factored_repeats
            THEN [factored_repeats EXCEPT ![key] = @ + 1]
            ELSE factored_repeats @@ (key :> 1)
    IN factor_repeats(config, cov, consensusBase, i + 1, next)

\* The sum over the factored repeats of multiplicity times log P(m | y).
RECURSIVE SumOverRepeats(_, _, _, _)
SumOverRepeats(config, consensusBase, y, factored_repeats) ==
    IF DOMAIN factored_repeats = {} THEN 0
    ELSE
    LET key == CHOOSE x \in DOMAIN factored_repeats : TRUE
        rest == [x \in DOMAIN factored_repeats \ {key} |-> factored_repeats[x]]
        matrix == config.probability_matrices[MatrixBase(consensusBase, key[1])]
    IN factored_repeats[key] * matrix[y][key[2]]
       + SumOverRepeats(config, consensusBase, y, rest)

\* The log likelihood of the true run length y.
LogLikelihood(config, consensusBase, y, factored_repeats) ==
    config.priors[PriorIndex(consensusBase)][y]
    + SumOverRepeats(config, consensusBase, y, factored_repeats)

\* A variant of normalize_likelihoods that subtracts the first entry.
normalize_likelihoodsByFirst(x, x_max) == [i \in 1 .. Len(x) |-> x[i] - x[1]]

\* normalize_likelihoods: the maximum is subtracted from every entry.
normalize_likelihoods(x, x_max) == [i \in 1 .. Len(x) |-> x[i] - x_max]

\* The scratch state of predict_runlength before the first candidate.
ScoringBegin(config, cov, consensusBase) ==
    [factored_repeats |-> factor_repeats(config, cov, consensusBase, 1, <<>>),
     consensusBase |-> consensusBase,
     y |-> 0, log_likelihood_y |-> <<>>, y_max |-> 0, y_max_likelihood |-> 0]

\* One turn of the loop over the candidates: candidate y is scored and the
\* greatest score so far is kept.
ScoringStep(config, s) ==
    LET log_sum == LogLikelihood(config, s.consensusBase, s.y, s.factored_repeats)
        better == s.y = 0 \/ log_sum > s.y_max_likelihood
    IN [s EXCEPT !.y = @ + 1,
                 !.log_likelihood_y = Append(@, log_sum),
                 !.y_max = IF better THEN s.y ELSE @,
                 !.y_max_likelihood = IF better THEN log_sum ELSE @]

\* What predict_runlength returns once every candidate is scored: the most
\* likely run length, and the normalized vector written to log_likelihood_y.
ScoringResult(s) ==
    [runlength |-> s.y_max,
     log_likelihood_y |-> normalize_likelihoods(s.log_likelihood_y,
                                                s.y_max_likelihood)]

\* predict_runlength run from scratch state s to its end.
RECURSIVE ScoringRun(_, _)
ScoringRun(config, s) ==
    IF s.y >= config.max_runlength THEN ScoringResult(s)
    ELSE ScoringRun(config, ScoringStep(config, s))

predict_runlength(config, cov, consensusBase) ==
    ScoringRun(config, ScoringBegin(config, cov, consensusBase))

\* The vote of a base: the number of observations of it.
Vote(cov, base) ==
    Cardinality({i \in 1 .. Len(cov) : cov[i].base = base})

\* predict_consensus_base: the base of greatest vote, the first in the order
\* of AlignedBases among equals.
predict_consensus_base(config, cov) ==
    LET best == CHOOSE i \in 1 .. Len(AlignedBases) :
                    /\ \A j \in 1 .. Len(AlignedBases) :
                          Vote(cov, AlignedBases[j]) <=
                              Vote(cov, AlignedBases[i])
                    /\ \A j \in 1 .. (i - 1) :
                          Vote(cov, AlignedBases[j]) <
                              Vote(cov, AlignedBases[i])
    IN AlignedBases[best]

-----------------------------------------------------------------------------
(* Calls on one shared SimpleBayesianConsensusCaller.                      *)

\* The threads that call the shared instance.
Threads == {1, 2}

\* A variant of ScratchOf in which every call works in the same scratch state.
ScratchShared(t) == CHOOSE s \in Threads : \A u \in Threads : s <= u

\* The scratch state of a call is local to the call.
ScratchOf(t) == t

\* A thread that is not in a call.
Idle == [pc |-> "idle"]

\* predict_consensus_base(coverage), from call to return.
CallPredictConsensusBase(t, cov) ==
    /\ calls[t].pc = "idle"
    /\ calls' = [calls EXCEPT ![t] =
            [pc |-> "done", op |-> "predict_consensus_base",
             coverage |-> cov, consensusBase |-> "-",
             result |-> predict_consensus_base(caller, cov)]]
    /\ UNCHANGED <<caller, scratch>>

\* predict_runlength(coverage, consensusBase, log_likelihood_y) is entered:
\* the repeats are factored.
CallPredictRunlength(t, cov, consensusBase) ==
    /\ calls[t].pc = "idle"
    /\ calls' = [calls EXCEPT ![t] =
            [pc |-> "scoring", op |-> "predict_runlength",
             coverage |-> cov, consensusBase |-> consensusBase]]
    /\ scratch' = [scratch EXCEPT ![ScratchOf(t)] =
            ScoringBegin(caller, cov, consensusBase)]
    /\ UNCHANGED caller

\* operator()(coverage) is entered: the consensus base is predicted; a gap
\* is returned with repeat count 0, any other base goes on to
\* predict_runlength.
CallOperator(t, cov) ==
    LET consensusBase == predict_consensus_base(caller, cov) IN
    /\ calls[t].pc = "idle"
    /\ IF consensusBase = "-"
       THEN /\ calls' = [calls EXCEPT ![t] =
                    [pc |-> "done", op |-> "operator()",
                     coverage |-> cov, consensusBase |-> consensusBase,
                     result |-> [base |-> consensusBase, repeatCount |-> 0]]]
            /\ UNCHANGED scratch
       ELSE /\ calls' = [calls EXCEPT ![t] =
                    [pc |-> "scoring", op |-> "operator()",
                     coverage |-> cov, consensusBase |-> consensusBase]]
            /\ scratch' = [scratch EXCEPT ![ScratchOf(t)] =
                    ScoringBegin(caller, cov, consensusBase)]
    /\ UNCHANGED caller

\* One candidate run length is scored.
ScoreCandidate(t) ==
    /\ calls[t].pc = "scoring"
    /\ scratch[ScratchOf(t)].y < caller.max_runlength
    /\ scratch' = [scratch EXCEPT ![ScratchOf(t)] = ScoringStep(caller, @)]
    /\ UNCHANGED <<caller, calls>>

\* Every candidate is scored: the call returns.
FinishScoring(t) ==
    /\ calls[t].pc = "scoring"
    /\ scratch[ScratchOf(t)].y >= caller.max_runlength
    /\ LET scored == ScoringResult(scratch[ScratchOf(t)]) IN
       calls' = [calls EXCEPT ![t] =
            [pc |-> "done", op |-> calls[t].op,
             coverage |-> calls[t].coverage,
             consensusBase |-> calls[t].consensusBase,
             result |-> IF calls[t].op = "predict_runlength" THEN scored
                        ELSE [base |-> calls[t].consensusBase,
                              repeatCount |-> scored.runlength]]]
    /\ UNCHANGED <<caller, scratch>>

\* The caller has used the result and is ready for another call.
Return(t) ==
    /\ calls[t].pc = "done"
    /\ calls' = [calls EXCEPT ![t] = Idle]
    /\ UNCHANGED <<caller, scratch>>

\* The log probability matrices: one peaked on the diagonal, one that favours
\* short runs whatever was observed.
RunLengths == 0 .. 2
PeakedMatrix == [y \in RunLengths |-> [x \in RunLengths |-> IF x = y THEN -1 ELSE -5]]
SkewedMatrix == [y \in RunLengths |-> [x \in RunLengths |-> -1 - 2 * y]]

\* The log priors: equal for all run lengths, or much in favour of short runs.
FlatPrior == [y \in RunLengths |-> -1]
SteepPrior == [y \in RunLengths |-> -1 - 9 * y]

Configuration(matrixAT, matrixCG, prior, ignore, gapsAsZeros) ==
    [max_runlength |-> Cardinality(RunLengths),
     ignore_non_consensus_base_repeats |-> ignore,
     predict_gap_runlengths |-> FALSE,
     count_gaps_as_zeros |-> gapsAsZeros,
     probability_matrices |->
        [base \in {"A", "C", "G", "T"} |->
            IF base \in {"A", "T"} THEN matrixAT ELSE matrixCG],
     priors |-> [i \in {0, 1} |-> prior]]

\* The configurations the instance is constructed with.
Configurations ==
    {Configuration(PeakedMatrix, PeakedMatrix, FlatPrior, TRUE, FALSE),
     Configuration(PeakedMatrix, PeakedMatrix, SteepPrior, TRUE, TRUE),
     Configuration(PeakedMatrix, SkewedMatrix, FlatPrior, FALSE, TRUE)}

\* The Coverage objects handed to the calls.
Coverages ==
    {<<>>,
     <<Observation("A", 0, 2), Observation("A", 1, 2), Observation("A", 0, 2)>>,
     <<Observation("C", 1, 0), Observation("C", 0, 0)>>,
     <<Observation("A", 0, 1), Observation("C", 0, 2), Observation("-", 1, 0),
       Observation("A", 1, 1)>>,
     <<Observation("C", 0, 0), Observation("C", 1, 2), Observation("-", 0, 0),
       Observation("-", 1, 0), Observation("-", 1, 0)>>}

\* No graph is built while the caller is explored.
NoGraph ==
    /\ k = 0
    /\ globalMarkerGraphVertex = <<>>
    /\ vertices = <<>>
    /\ vertexMap = <<>>
    /\ edges = <<>>
    /\ ret = [op |-> "none"]

InitCaller ==
    /\ caller \in Configurations
    /\ calls = [t \in Threads |-> Idle]
    /\ scratch = [t \in Threads |-> <<>>]
    /\ NoGraph

NextCaller ==
    \/ \E t \in Threads, cov \in Coverages :
            /\ CallPredictConsensusBase(t, cov)
            /\ UNCHANGED graphVars
    \/ \E t \in Threads, cov \in Coverages, consensusBase \in {"A", "C"} :
            /\ CallPredictRunlength(t, cov, consensusBase)
            /\ UNCHANGED graphVars
    \/ \E t \in Threads, cov \in Coverages :
            /\ CallOperator(t, cov)
            /\ UNCHANGED graphVars
    \/ \E t \in Threads : ScoreCandidate(t) /\ UNCHANGED graphVars
    \/ \E t \in Threads : FinishScoring(t) /\ UNCHANGED graphVars
    \/ \E t \in Threads : Return(t) /\ UNCHANGED graphVars

SpecCaller == InitCaller /\ [][NextCaller]_vars

-----------------------------------------------------------------------------
(* Properties of the vertex operations.                                    *)

\* Some vertex of the graph carries this vertex id.
VertexIdPresent(vertexId) ==
    \E i \in 1 .. Len(vertices) : vertices[i].vertexId = vertexId

NoTwoVerticesShareAnId ==
    \A i, j \in 1 .. Len(vertices) :
        i # j => vertices[i].vertexId # vertices[j].vertexId

\* A step that is an addVertex call fails exactly when its vertex id was
\* present before the call, and a failing call leaves the vertices and the
\* vertex map as they were.
AddVertexStep ==
    ret'.op = "addVertex" =>
        /\ ret'.failed <=> VertexIdPresent(ret'.vertexId)
        /\ ret'.failed => vertices' = vertices /\ vertexMap' = vertexMap
        /\ ~ret'.failed =>
              /\ Len(vertices') = Len(vertices) + 1
              /\ vertices'[ret'.v].vertexId = ret'.vertexId

\* C1: addVertex with a vertex id that is already present always fails, and
\* fails before a vertex is created or the vertex map is changed; no two
\* vertices ever share a vertex id.
C1_DuplicateAddVertexFails ==
    /\ []NoTwoVerticesShareAnId
    /\ [][AddVertexStep]_vars

\* A duplicate addVertex has just failed on a graph that holds the vertex.
C1_Witness ==
    /\ ret.op = "addVertex"
    /\ ret.failed
    /\ VertexIdPresent(ret.vertexId)
    /\ Len(vertices) = 2

\* What findVertex returned agrees with the vertices of the graph.
FindVertexAnswer ==
    ret.op = "findVertex" =>
        /\ ret.result.found <=> VertexIdPresent(ret.vertexId)
        /\ ret.result.found =>
              /\ ret.result.v \in 1 .. Len(vertices)
              /\ vertices[ret.result.v].vertexId = ret.vertexId
        /\ ~ret.result.found => ret.result.v = null_vertex

FindVertexStep ==
    ret'.op = "findVertex" =>
        vertices' = vertices /\ vertexMap' = vertexMap /\ edges' = edges

\* C2: findVertex(id) returns (true, v) with graph[v].vertexId = id exactly
\* when a successful addVertex(id) happened, and (false, null_vertex)
\* otherwise; findVertex changes neither the vertices, the edges nor the
\* vertex map.
C2_FindVertexReturnsAddedVertex ==
    /\ []FindVertexAnswer
    /\ [][FindVertexStep]_vars

\* findVertex has just found the second of two vertices.
C2_Witness ==
    /\ ret.op = "findVertex"
    /\ ret.result.found
    /\ ret.result.v = 2
    /\ Len(vertices) = 2

\* The k-mer ids of the markers of a vertex, read from the marker table.
KmerIdsOfVertex(v) ==
    {MarkerKmerIdOf(vertices[v].markerInfos[i].orientedReadId,
                    vertices[v].markerInfos[i].ordinal) :
        i \in 1 .. Len(vertices[v].markerInfos)}

\* C3: getKmerId(v) returns the k-mer id shared by all markers of v when they
\* agree; it fails when v has no markers and whenever some marker of v, at
\* whatever index, has another k-mer id than the first.
C3_GetKmerIdChecksEveryMarker ==
    ret.op = "getKmerId" =>
        /\ vertices[ret.v].markerInfos = <<>> => ret.result.failed
        /\ Cardinality(KmerIdsOfVertex(ret.v)) > 1 => ret.result.failed
        /\ Cardinality(KmerIdsOfVertex(ret.v)) = 1 =>
              /\ ~ret.result.failed
              /\ KmerIdsOfVertex(ret.v) = {ret.result.kmerId}

\* getKmerId has just failed on a vertex whose last marker alone disagrees.
C3_Witness ==
    /\ ret.op = "getKmerId"
    /\ ret.result.failed
    /\ Len(vertices[ret.v].markerInfos) = 3
    /\ MarkerAt(vertices[ret.v].markerInfos[1].markerId).kmerId =
       MarkerAt(vertices[ret.v].markerInfos[2].markerId).kmerId
    /\ MarkerAt(vertices[ret.v].markerInfos[3].markerId).kmerId #
       MarkerAt(vertices[ret.v].markerInfos[1].markerId).kmerId

-----------------------------------------------------------------------------
(* Properties of storeEdgeInfo.                                            *)

\* The marker lists of the two vertices of an edge.
MarkerInfos0(e) == vertices[edges[e].source].markerInfos
MarkerInfos1(e) == vertices[edges[e].target].markerInfos

SortedByOrientedReadId(markerInfos) ==
    \A i, j \in 1 .. Len(markerInfos) :
        i < j => markerInfos[i].orientedReadId <= markerInfos[j].orientedReadId

EndpointsSorted(e) ==
    SortedByOrientedReadId(MarkerInfos0(e)) /\ SortedByOrientedReadId(MarkerInfos1(e))

\* The indexes at which an oriented read occurs in a marker list.
OccurrencesOf(markerInfos, orientedReadId) ==
    {i \in 1 .. Len(markerInfos) : markerInfos[i].orientedReadId = orientedReadId}

TheOccurrence(markerInfos, orientedReadId) ==
    markerInfos[CHOOSE i \in OccurrencesOf(markerInfos, orientedReadId) : TRUE]

\* The read has one marker on each vertex, the one on the source first.
PairedOnce(e, r) ==
    /\ Cardinality(OccurrencesOf(MarkerInfos0(e), r)) = 1
    /\ Cardinality(OccurrencesOf(MarkerInfos1(e), r)) = 1
    /\ TheOccurrence(MarkerInfos0(e), r).ordinal <
       TheOccurrence(MarkerInfos1(e), r).ordinal

\* The marker ids strictly between the two markers of a read paired once.
MarkersBetween(e, r) ==
    {m \in MarkerIds :
        /\ TheOccurrence(MarkerInfos0(e), r).markerId < m
        /\ m < TheOccurrence(MarkerInfos1(e), r).markerId}

NoInterveningVertex(e, r) ==
    \A m \in MarkersBetween(e, r) :
        globalMarkerGraphVertex[m] = invalidCompressedGlobalMarkerGraphVertexId

Accepted(e, r) == PairedOnce(e, r) /\ NoInterveningVertex(e, r)

\* The Info a read paired once contributes.
InfoOfRead(e, r) ==
    Info(r, TheOccurrence(MarkerInfos0(e), r).ordinal,
            TheOccurrence(MarkerInfos1(e), r).ordinal)

AcceptedInfos(e) == {InfoOfRead(e, r) : r \in {q \in OrientedReadIds : Accepted(e, q)}}

\* The places (group, index) of the Infos of an edge, and the Infos there.
InfoPlaces(infos) ==
    UNION {{<<g, i>> : i \in 1 .. Len(infos[g].second)} : g \in 1 .. Len(infos)}

InfoAt(infos, place) == infos[place[1]].second[place[2]]

StoredInfos(infos) == {InfoAt(infos, place) : place \in InfoPlaces(infos)}

\* The call that has just returned is storeEdgeInfo(e) / either overload.
JustScanned == ret.op = "storeEdgeInfo"
JustStored == ret.op \in {"storeEdgeInfo", "storeEdgeInfoVector"}

\* C4: with both marker lists sorted by oriented read, storeEdgeInfo(e) stores
\* an Info for a read if and only if the read has exactly one marker on each
\* vertex, the source ordinal is the smaller and no intervening vertex
\* exists; a read with several markers on a vertex contributes nothing, and
\* an accepted read contributes exactly one Info (read, ordinal0, ordinal1).
C4_StoresExactlyTheAcceptedReads ==
    (JustScanned /\ EndpointsSorted(ret.e)) =>
        LET infos == edges[ret.e].infos IN
        /\ StoredInfos(infos) = AcceptedInfos(ret.e)
        /\ Cardinality(InfoPlaces(infos)) = Cardinality(AcceptedInfos(ret.e))
        /\ \A r \in OrientedReadIds :
              (\/ Cardinality(OccurrencesOf(MarkerInfos0(ret.e), r)) >= 2
               \/ Cardinality(OccurrencesOf(MarkerInfos1(ret.e), r)) >= 2)
              => \A info \in StoredInfos(infos) : info.orientedReadId # r

\* One read was accepted and one was rejected for its two markers on the
\* target.
C4_Witness ==
    /\ JustScanned
    /\ EndpointsSorted(ret.e)
    /\ Cardinality(StoredInfos(edges[ret.e].infos)) = 1
    /\ \E r \in OrientedReadIds :
          /\ Cardinality(OccurrencesOf(MarkerInfos0(ret.e), r)) = 1
          /\ Cardinality(OccurrencesOf(MarkerInfos1(ret.e), r)) = 2

\* C5: a read that otherwise qualifies is left out of the edge's infos
\* whenever a marker id strictly between its two markers has a global
\* vertex, and is stored when every marker id between them has the
\* sentinel, also when there is no marker id between them.
C5_InterveningVertexExcludesRead ==
    (JustScanned /\ EndpointsSorted(ret.e)) =>
        \A r \in {q \in OrientedReadIds : PairedOnce(ret.e, q)} :
            /\ (\E m \in MarkersBetween(ret.e, r) :
                    globalMarkerGraphVertex[m] #
                    invalidCompressedGlobalMarkerGraphVertexId)
               => \A info \in StoredInfos(edges[ret.e].infos) :
                      info.orientedReadId # r
            /\ NoInterveningVertex(ret.e, r)
               => InfoOfRead(ret.e, r) \in StoredInfos(edges[ret.e].infos)

\* A read accepted across a marker without a vertex stands beside a read left
\* out because of an intervening vertex.
C5_Witness ==
    /\ JustScanned
    /\ EndpointsSorted(ret.e)
    /\ \E r \in OrientedReadIds :
          /\ PairedOnce(ret.e, r)
          /\ MarkersBetween(ret.e, r) # {}
          /\ InfoOfRead(ret.e, r) \in StoredInfos(edges[ret.e].infos)
    /\ \E r \in OrientedReadIds :
          /\ PairedOnce(ret.e, r)
          /\ ~NoInterveningVertex(ret.e, r)

\* The positions of the two markers of an Info.
Position0(info) == MarkerPositionOf(info.orientedReadId, info.ordinals[1], k)
Position1(info) == MarkerPositionOf(info.orientedReadId, info.ordinals[2], k)

\* The Sequence under which the Info at a place is filed.
SequenceAt(infos, place) == infos[place[1]].first

Min(a, b) == IF a <= b THEN a ELSE b

\* C6: when marker1.position <= marker0.position + k, both storeEdgeInfo
\* overloads store position0 + k - position1 saturated at 255: the exact value
\* up to 255, and 255 for every larger value.
C6_OverlapCountSaturates ==
    JustStored =>
        \A place \in InfoPlaces(edges[ret.e].infos) :
            LET info == InfoAt(edges[ret.e].infos, place) IN
            Position1(info) <= Position0(info) + k =>
                SequenceAt(edges[ret.e].infos, place).overlappingBaseCount =
                    Min(Position0(info) + k - Position1(info), 255)

\* The reverse complement of a read is the other read.
ReverseComplementRead(readId) == 1 - readId

\* C7: when marker1.position > marker0.position + k the stored bases are the
\* position1 - position0 - k bases from position0 + k on: on strand 0 the read
\* bases themselves, on strand 1 the complements of the bases at
\* readLength - 1 - position; so the bases stored for strand 1 of a read are
\* those stored for strand 0 of its reverse complement.
C7_GapBasesFollowTheStrand ==
    JustStored =>
        \A place \in InfoPlaces(edges[ret.e].infos) :
            LET info == InfoAt(edges[ret.e].infos, place)
                sequence == SequenceAt(edges[ret.e].infos, place).sequence
                readId == getReadId(info.orientedReadId)
                first == Position0(info) + k
            IN
            Position1(info) > first =>
                /\ Len(sequence) = Position1(info) - first
                /\ \A i \in 0 .. (Len(sequence) - 1) :
                      IF getStrand(info.orientedReadId) = 0
                      THEN sequence[i + 1] = ReadGet(readId, first + i)
                      ELSE /\ sequence[i + 1] =
                                Complement(ReadGet(readId, ReadLength - 1 - (first + i)))
                           /\ sequence[i + 1] =
                                ReadGet(ReverseComplementRead(readId), first + i)

\* A group of two different bases holds a read on strand 1 and a read on
\* strand 0.
C7_Witness ==
    /\ JustScanned
    /\ \E g \in 1 .. Len(edges[ret.e].infos) :
          LET pair == edges[ret.e].infos[g] IN
          /\ Len(pair.first.sequence) = 2
          /\ pair.first.sequence[1] # Complement(pair.first.sequence[2])
          /\ \E i, j \in 1 .. Len(pair.second) :
                /\ getStrand(pair.second[i].orientedReadId) = 0
                /\ getStrand(pair.second[j].orientedReadId) = 1

\* C8: a stored Sequence is either an overlap (no bases) or an insertion
\* (overlap count 0 and at least one base); abutting markers give overlap
\* count 0 and no bases, and bases are stored only for a read whose markers
\* leave a gap, so an abutting read never shares a group with such a read.
C8_OverlapAndInsertionAreExclusive ==
    JustStored =>
        \A place \in InfoPlaces(edges[ret.e].infos) :
            LET info == InfoAt(edges[ret.e].infos, place)
                sequence == SequenceAt(edges[ret.e].infos, place)
            IN
            /\ \/ sequence.sequence = <<>>
               \/ sequence.overlappingBaseCount = 0 /\ Len(sequence.sequence) >= 1
            /\ Position1(info) = Position0(info) + k =>
                  sequence = [overlappingBaseCount |-> 0, sequence |-> <<>>]
            /\ sequence.sequence # <<>> <=> Position1(info) > Position0(info) + k

\* An abutting read and a read with inserted bases are stored on one edge.
C8_Witness ==
    /\ JustScanned
    /\ \E place \in InfoPlaces(edges[ret.e].infos) :
          Position1(InfoAt(edges[ret.e].infos, place)) =
          Position0(InfoAt(edges[ret.e].infos, place)) + k
    /\ \E place \in InfoPlaces(edges[ret.e].infos) :
          Position1(InfoAt(edges[ret.e].infos, place)) >
          Position0(InfoAt(edges[ret.e].infos, place)) + k

\* The Sequence of an Info, computed from its read and ordinals.
SequenceOfInfo(info) ==
    EdgeSequence(info.orientedReadId,
                 MarkerOf(info.orientedReadId, info.ordinals[1]),
                 MarkerOf(info.orientedReadId, info.ordinals[2]))

\* The groups have different Sequences, none is empty, and each Info is
\* filed under its own Sequence.
WellGrouped(infos) ==
    /\ \A g, h \in 1 .. Len(infos) : g # h => ~SameSequence(infos[g].first, infos[h].first)
    /\ \A g \in 1 .. Len(infos) : infos[g].second # <<>>
    /\ \A place \in InfoPlaces(infos) :
          SameSequence(SequenceAt(infos, place), SequenceOfInfo(InfoAt(infos, place)))

\* C9: after storeEdgeInfo the edge holds one (Sequence, Info-list) pair per
\* distinct Sequence of the accepted reads: no two pairs have the same
\* Sequence, no list is empty, each accepted Info is in exactly one list, the
\* one of its Sequence, and nothing of an earlier call remains.
C9_OneGroupPerSequence ==
    /\ JustStored => WellGrouped(edges[ret.e].infos)
    /\ (JustScanned /\ EndpointsSorted(ret.e)) =>
          /\ StoredInfos(edges[ret.e].infos) = AcceptedInfos(ret.e)
          /\ Cardinality(InfoPlaces(edges[ret.e].infos)) =
             Cardinality(AcceptedInfos(ret.e))
    /\ ret.op = "storeEdgeInfoVector" =>
          /\ StoredInfos(edges[ret.e].infos) = Range(ret.infoVector)
          /\ Cardinality(InfoPlaces(edges[ret.e].infos)) = Len(ret.infoVector)

\* Three reads were accepted, two of them with the same Sequence.
C9_Witness ==
    /\ JustScanned
    /\ EndpointsSorted(ret.e)
    /\ Len(edges[ret.e].infos) = 2
    /\ Cardinality(AcceptedInfos(ret.e)) = 3

\* The size of the largest group, 0 without groups.
LargestGroupSize(infos) ==
    IF infos = <<>> THEN 0
    ELSE CHOOSE n \in {Len(infos[g].second) : g \in 1 .. Len(infos)} :
            \A g \in 1 .. Len(infos) : Len(infos[g].second) <= n

\* C10: after storeEdgeInfo the groups are in order of non-increasing size, so
\* consensus() is the size of the largest group, and coverage() is the number
\* of accepted reads and at least consensus().
C10_GroupsSortedBySize ==
    JustStored =>
        LET infos == edges[ret.e].infos IN
        /\ \A g \in 1 .. (Len(infos) - 1) :
              Len(infos[g].second) >= Len(infos[g + 1].second)
        /\ consensus(edges[ret.e]) = LargestGroupSize(infos)
        /\ coverage(edges[ret.e]) = Cardinality(InfoPlaces(infos))
        /\ coverage(edges[ret.e]) >= consensus(edges[ret.e])
        /\ (JustScanned /\ EndpointsSorted(ret.e)) =>
              coverage(edges[ret.e]) = Cardinality(AcceptedInfos(ret.e))

\* The scan has left a group of two reads before a group of one read.
C10_Witness ==
    /\ JustScanned
    /\ Len(edges[ret.e].infos) = 2
    /\ consensus(edges[ret.e]) = 2
    /\ coverage(edges[ret.e]) = 3

-----------------------------------------------------------------------------
(* Properties of the spanning tree.                                        *)

EdgeIds == 1 .. Len(edges)
VertexDescriptors == 1 .. Len(vertices)
SpanningTreeEdges == {e \in EdgeIds : edges[e].isSpanningTreeEdge}
BestPathEdges == {e \in EdgeIds : edges[e].isSpanningTreeBestPathEdge}

\* The vertices joined to a vertex of S by edges of F, read as undirected.
RECURSIVE ReachedFrom(_, _)
ReachedFrom(F, S) ==
    LET T == S \cup {edges[e].target : e \in {f \in F : edges[f].source \in S}}
                \cup {edges[e].source : e \in {f \in F : edges[f].target \in S}}
    IN IF T = S THEN S ELSE ReachedFrom(F, T)

ConnectedBy(F, a, b) == b \in ReachedFrom(F, {a})

ComponentsOf(F) == {ReachedFrom(F, {v}) : v \in VertexDescriptors}

\* No edge of F is a self-loop or joins two vertices the rest of F joins.
HasNoUndirectedCycle(F) ==
    \A e \in F :
        /\ edges[e].source # edges[e].target
        /\ ~ConnectedBy(F \ {e}, edges[e].source, edges[e].target)

RECURSIVE TotalCoverage(_)
TotalCoverage(F) ==
    IF F = {} THEN 0
    ELSE LET e == CHOOSE f \in F : TRUE
         IN coverage(edges[e]) + TotalCoverage(F \ {e})

JustComputedTree == ret.op = "computeOptimalSpanningTree"
JustComputedBestPath == ret.op = "computeOptimalSpanningTreeBestPath"

C13_MarkedEdgesAreASpanningForest ==
    JustComputedTree /\ vertices # <<>> =>
        /\ HasNoUndirectedCycle(SpanningTreeEdges)
        /\ \A a, b \in VertexDescriptors :
              ConnectedBy(SpanningTreeEdges, a, b) <=> ConnectedBy(EdgeIds, a, b)
        /\ Cardinality(SpanningTreeEdges) =
              Cardinality(VertexDescriptors) - Cardinality(ComponentsOf(EdgeIds))

\* The tree has just been computed on a graph with a self-loop, two parallel
\* edges and two components.
C13_Witness ==
    /\ JustComputedTree
    /\ \E e \in EdgeIds : edges[e].source = edges[e].target
    /\ \E e, f \in EdgeIds :
          /\ e # f
          /\ edges[e].source = edges[f].source
          /\ edges[e].target = edges[f].target
          /\ e \in SpanningTreeEdges
    /\ Cardinality(ComponentsOf(EdgeIds)) > 1

\* C14: the marked forest has the greatest total coverage: no set of edges
\* without an undirected cycle has a greater sum of coverage, whatever order
\* the sort gave to edges of equal coverage.
C14_MarkedForestHasMaximumCoverage ==
    JustComputedTree =>
        \A F \in SUBSET EdgeIds :
            HasNoUndirectedCycle(F) =>
                TotalCoverage(SpanningTreeEdges) >= TotalCoverage(F)

\* The tree has just been computed on a triangle whose edges have coverage
\* 1, 2 and 1: the edge of coverage 2 is marked and one of the others is not.
C14_Witness ==
    /\ JustComputedTree
    /\ \E e, f, g \in EdgeIds :
          /\ ConnectedBy(EdgeIds \ {e}, edges[e].source, edges[e].target)
          /\ coverage(edges[e]) = 1
          /\ coverage(edges[f]) = 2
          /\ coverage(edges[g]) = 1
          /\ e # g
          /\ e \notin SpanningTreeEdges
          /\ {f, g} \subseteq SpanningTreeEdges

\* The edges examined before place i of the edge table that are marked.
MarkedBefore(i) ==
    {ret.edgeTable[j].first : j \in 1 .. (i - 1)} \cap SpanningTreeEdges

\* C18: computeOptimalSpanningTree examines the edges in non-increasing
\* coverage order and marks an edge exactly when its two vertices are not yet
\* joined by the edges marked before it; so an edge left unmarked is a
\* self-loop or closes an undirected cycle with marked edges of at least its
\* own coverage.
C18_EdgesExaminedByDecreasingCoverage ==
    JustComputedTree =>
        /\ \A i \in 1 .. Len(ret.edgeTable) :
              ret.edgeTable[i].second = coverage(edges[ret.edgeTable[i].first])
        /\ \A i, j \in 1 .. Len(ret.edgeTable) :
              i < j => ret.edgeTable[i].second >= ret.edgeTable[j].second
        /\ \A i \in 1 .. Len(ret.edgeTable) :
              LET e == ret.edgeTable[i].first IN
              e \in SpanningTreeEdges <=>
                  ~ConnectedBy(MarkedBefore(i), edges[e].source, edges[e].target)
        /\ \A e \in EdgeIds \ SpanningTreeEdges :
              \/ edges[e].source = edges[e].target
              \/ ConnectedBy({f \in SpanningTreeEdges :
                                 coverage(edges[f]) >= coverage(edges[e])},
                             edges[e].source, edges[e].target)

\* The tree has just been computed and an edge of positive coverage that is
\* not a self-loop was examined after the marked edges that join its vertices.
C18_Witness ==
    /\ JustComputedTree
    /\ \E i \in 1 .. Len(ret.edgeTable) :
          LET e == ret.edgeTable[i].first IN
          /\ e \notin SpanningTreeEdges
          /\ edges[e].source # edges[e].target
          /\ coverage(edges[e]) > 0
          /\ Cardinality(MarkedBefore(i)) >= 2

-----------------------------------------------------------------------------
(* The two overloads of storeEdgeInfo.                                     *)

\* The reads with one marker on each vertex of the edge.
ReadsOnBothVertices(e) ==
    {r \in OrientedReadIds :
        /\ Cardinality(OccurrencesOf(MarkerInfos0(e), r)) = 1
        /\ Cardinality(OccurrencesOf(MarkerInfos1(e), r)) = 1}

\* infoVector lists, once each, the observations of the reads on both vertices.
ListsTheObservations(e, infoVector) ==
    /\ Range(infoVector) = {InfoOfRead(e, r) : r \in ReadsOnBothVertices(e)}
    /\ Len(infoVector) = Cardinality(ReadsOnBothVertices(e))

\* The groups as sets: each Sequence with the set of its Infos.
GroupsOf(pairs) ==
    {[first |-> pair.first, second |-> Range(pair.second)] : pair \in pairs}

\* The groups storeEdgeInfo(e) computes for the edge.
GroupsOfScan(e) ==
    GroupsOf(TablePairs(ScanMarkers(MarkerInfos0(e), MarkerInfos1(e), 1, 1, <<>>)))

\* C12: the two overloads are equivalent.  When infoVector lists the
\* observations of the reads on both vertices of e, storeEdgeInfo(e,
\* infoVector) leaves the groups storeEdgeInfo(e) leaves, and stores an
\* observation only if it meets the acceptance conditions of storeEdgeInfo(e).
C12_OverloadsAreEquivalent ==
    (/\ ret.op = "storeEdgeInfoVector"
     /\ EndpointsSorted(ret.e)
     /\ ListsTheObservations(ret.e, ret.infoVector)) =>
        /\ GroupsOf(Range(edges[ret.e].infos)) = GroupsOfScan(ret.e)
        /\ StoredInfos(edges[ret.e].infos) \subseteq AcceptedInfos(ret.e)

-----------------------------------------------------------------------------
(* Properties of the best path.                                            *)

\* The directed chains of edges of F: the target of each edge is the source
\* of the next.
ChainsOf(F) ==
    {s \in InjectiveSeqsUpTo(F, Cardinality(F)) :
        \A i \in 1 .. (Len(s) - 1) : edges[s[i]].target = edges[s[i + 1]].source}

Max(S) == CHOOSE x \in S : \A y \in S : y <= x

\* The number of edges of the longest chain of spanning tree edges that ends at v.
LongestChainTo(v) ==
    Max({0} \cup {Len(s) : s \in {c \in ChainsOf(SpanningTreeEdges) :
                                    c # <<>> /\ edges[c[Len(c)]].target = v}})

\* The chains of spanning tree edges no other chain is longer than.
LongestChains ==
    LET chains == ChainsOf(SpanningTreeEdges) IN
    {c \in chains : \A d \in chains : Len(d) <= Len(c)}

InTreeEdges(v) == {e \in SpanningTreeEdges : edges[e].target = v}

NoParallelEdges ==
    \A e, f \in EdgeIds :
        edges[e].source = edges[f].source /\ edges[e].target = edges[f].target
            => e = f

BestPathDone == JustComputedBestPath /\ ret.result.failed = "no"

\* C19: the distance stored in vertexTable for a vertex is the number of
\* edges of the longest directed path of spanning tree edges that ends there;
\* a vertex without incoming spanning tree edge gets (null_vertex, 0), and the
\* predecessor stored for any other vertex is the source of an incoming
\* spanning tree edge and has a distance one less.
C19_VertexTableHoldsLongestDistances ==
    BestPathDone =>
        LET vertexTable == ret.result.vertexTable IN
        /\ DOMAIN vertexTable = VertexDescriptors
        /\ \A v \in VertexDescriptors :
              /\ vertexTable[v].second = LongestChainTo(v)
              /\ InTreeEdges(v) = {} =>
                    vertexTable[v] = [first |-> null_vertex, second |-> 0]
              /\ InTreeEdges(v) # {} =>
                    \E e \in InTreeEdges(v) :
                        /\ edges[e].source = vertexTable[v].first
                        /\ vertexTable[edges[e].source].second + 1 =
                               vertexTable[v].second

\* The best path has just been computed on a tree in which a vertex has two
\* incoming tree edges, from predecessors at distance 1 and at distance 0.
C19_Witness ==
    /\ BestPathDone
    /\ \E v \in VertexDescriptors :
          /\ ret.result.vertexTable[v].second = 2
          /\ \E e, f \in InTreeEdges(v) :
                /\ ret.result.vertexTable[edges[e].source].second = 1
                /\ ret.result.vertexTable[edges[f].source].second = 0

\* The greatest distance in the vertex table of the computation just made.
MaxDistance ==
    Max({0} \cup {ret.result.vertexTable[v].second : v \in VertexDescriptors})

\* What holds of the path found when the computation returns.
PathFound ==
    BestPathDone =>
        LET vertexTable == ret.result.vertexTable
            longestPath == ret.result.longestPath
        IN
        /\ ret.result.lastPathVertexDistance = MaxDistance
        /\ MaxDistance > 0 =>
              /\ vertexTable[ret.result.lastPathVertex].second = MaxDistance
              /\ \A v \in VertexDescriptors :
                    vertexTable[v].second = MaxDistance =>
                        ret.result.lastPathVertex <= v
              /\ edges[longestPath[Len(longestPath)]].target =
                    ret.result.lastPathVertex
              /\ InTreeEdges(edges[longestPath[1]].source) = {}
        /\ Len(longestPath) = MaxDistance
        /\ Cardinality(Range(longestPath)) = MaxDistance
        /\ \A i \in 1 .. (Len(longestPath) - 1) :
              edges[longestPath[i]].target = edges[longestPath[i + 1]].source
        /\ Range(longestPath) \subseteq BestPathEdges
        /\ MaxDistance = 0 => longestPath = <<>>

\* A step of computeOptimalSpanningTreeBestPath marks the edges of the path
\* it found and changes nothing else.
BestPathStep ==
    ret'.op = "computeOptimalSpanningTreeBestPath" /\ ret'.result.failed = "no" =>
        /\ Len(edges') = Len(edges)
        /\ \A e \in EdgeIds :
              /\ edges'[e].isSpanningTreeBestPathEdge <=>
                    (\/ edges[e].isSpanningTreeBestPathEdge
                     \/ e \in Range(ret'.result.longestPath))
              /\ [edges'[e] EXCEPT !.isSpanningTreeBestPathEdge = FALSE] =
                 [edges[e] EXCEPT !.isSpanningTreeBestPathEdge = FALSE]

\* C20: the path ends at the vertex of greatest longestDistance, the first
\* such vertex in vertex order; the run marks as many edges as that distance,
\* the marked edges are one directed chain that begins at a vertex without
\* incoming spanning tree edge, and no edge is marked when the distance is 0.
C20_PathEndsAtFirstFarthestVertex == []PathFound /\ [][BestPathStep]_vars

\* The path has just been found on a tree with two vertices at the greatest
\* distance, and it ends at the first of them.
C20_Witness ==
    /\ BestPathDone
    /\ MaxDistance > 0
    /\ \E v, w \in VertexDescriptors :
          /\ v < w
          /\ ret.result.vertexTable[v].second = MaxDistance
          /\ ret.result.vertexTable[w].second = MaxDistance
          /\ ret.result.lastPathVertex = v

\* A step of computeOptimalSpanningTreeBestPath made right after
\* computeOptimalSpanningTree, on a graph without parallel edges and without
\* best path flags, when one chain of spanning tree edges is the longest.
BestPathStepOnUniqueChain ==
    (/\ JustComputedTree
     /\ ret'.op = "computeOptimalSpanningTreeBestPath"
     /\ NoParallelEdges
     /\ BestPathEdges = {}
     /\ Cardinality(LongestChains) = 1) =>
        /\ ret'.result.failed = "no"
        /\ \A c \in LongestChains :
              {e \in EdgeIds : edges'[e].isSpanningTreeBestPathEdge} = Range(c)

\* C15: on a graph without parallel edges whose best path flags are all
\* false, computeOptimalSpanningTree followed by
\* computeOptimalSpanningTreeBestPath, when the spanning tree edges have a
\* unique longest directed chain, marks the edges of that chain and no other.
C15_MarksTheUniqueLongestChain == [][BestPathStepOnUniqueChain]_vars

\* The best path has just been marked: it is the only longest chain, it has
\* two edges, and a third spanning tree edge is not on it.
C15_Witness ==
    /\ BestPathDone
    /\ NoParallelEdges
    /\ Cardinality(LongestChains) = 1
    /\ Len(ret.result.longestPath) = 2
    /\ BestPathEdges = Range(ret.result.longestPath)
    /\ ret.result.longestPath \in LongestChains
    /\ SpanningTreeEdges \ BestPathEdges # {}

-----------------------------------------------------------------------------
(* Properties of the consensus caller.                                     *)

\* The observations predict_runlength counts for a consensus base, and the
\* repeat count each is counted with.
IsCounted(config, observation, consensusBase) ==
    IF observation.base = "-" THEN config.count_gaps_as_zeros
    ELSE (~config.ignore_non_consensus_base_repeats)
         \/ observation.base = consensusBase

CountedRepeat(observation) ==
    IF observation.base = "-" THEN 0 ELSE observation.repeatCount

\* log prior(n) plus the sum over the counted observations, from index i on,
\* of log P(observed | n, base).
RECURSIVE SumOverObservations(_, _, _, _, _)
SumOverObservations(config, cov, consensusBase, n, i) ==
    IF i > Len(cov) THEN 0
    ELSE (IF IsCounted(config, cov[i], consensusBase)
          THEN config.probability_matrices
                  [MatrixBase(consensusBase, cov[i].strand)][n][CountedRepeat(cov[i])]
          ELSE 0)
         + SumOverObservations(config, cov, consensusBase, n, i + 1)

RawScore(config, cov, consensusBase, n) ==
    config.priors[PriorIndex(consensusBase)][n]
    + SumOverObservations(config, cov, consensusBase, n, 1)

Candidates == 0 .. (caller.max_runlength - 1)

\* Thread t has a result of predict_runlength in hand.
RunlengthPredicted(t) ==
    calls[t].pc = "done" /\ calls[t].op = "predict_runlength"

\* The returned run length has the greatest score, and the output vector is
\* the score vector with its maximum subtracted.
ScoresNormalized(t) ==
    LET result == calls[t].result
        Raw(n) == RawScore(caller, calls[t].coverage, calls[t].consensusBase, n)
    IN
    /\ result.runlength \in Candidates
    /\ \A n \in Candidates : Raw(result.runlength) >= Raw(n)
    /\ Len(result.log_likelihood_y) = caller.max_runlength
    /\ \A n \in Candidates : result.log_likelihood_y[n + 1] <= 0
    /\ result.log_likelihood_y[result.runlength + 1] = 0
    /\ \A n, m \in Candidates :
          result.log_likelihood_y[n + 1] - result.log_likelihood_y[m + 1] =
              Raw(n) - Raw(m)

\* Every matrix is peaked on the diagonal: an observed count is most likely
\* when it is the true count.
PeakedOnDiagonal(config) ==
    \A base \in DOMAIN config.probability_matrices :
        \A x, y \in 0 .. (config.max_runlength - 1) :
            y # x => config.probability_matrices[base][x][x] >
                     config.probability_matrices[base][y][x]

\* There are observations and all of them are of the consensus base with
\* repeat count n.
AllObservationsEqual(cov, consensusBase, n) ==
    /\ cov # <<>>
    /\ \A i \in 1 .. Len(cov) :
          cov[i].base = consensusBase /\ cov[i].repeatCount = n

\* No run length has a greater prior than n.
PriorFavours(config, consensusBase, n) ==
    \A y \in 0 .. (config.max_runlength - 1) :
        config.priors[PriorIndex(consensusBase)][y] <=
            config.priors[PriorIndex(consensusBase)][n]

ResultAlone(call) ==
    IF call.op = "predict_consensus_base"
    THEN predict_consensus_base(caller, call.coverage)
    ELSE IF call.op = "predict_runlength"
    THEN predict_runlength(caller, call.coverage, call.consensusBase)
    ELSE LET base == predict_consensus_base(caller, call.coverage) IN
         [base |-> base,
          repeatCount |->
            IF base = "-" THEN 0
            ELSE predict_runlength(caller, call.coverage, base).runlength]

CallsAgreeWithAlone ==
    \A t \in Threads : calls[t].pc = "done" => calls[t].result = ResultAlone(calls[t])

ConfigurationUnchanged == caller' = caller

-----------------------------------------------------------------------------
(* Properties of the two computations run one after the other.             *)

\* The place of vertex v in the sequence s of vertices.
PlaceIn(s, v) == CHOOSE i \in 1 .. Len(s) : s[i] = v

\* Two edges of the graph go between the same two vertices in opposite
\* directions.
HasAntiparallelEdges ==
    \E e, f \in EdgeIds :
        /\ edges[e].source # edges[e].target
        /\ edges[e].source = edges[f].target
        /\ edges[e].target = edges[f].source

\* C21: computeOptimalSpanningTreeBestPath fails none of its assertions and
\* comes to an end, whatever the graph: the topological sort of the spanning
\* tree edges succeeds and puts the source of every spanning tree edge before
\* its target, every vertex is in vertexTable, the predecessor of a vertex is
\* one edge nearer to the start of its chain, so the backward walk ends after
\* as many steps as the distance of the last vertex, and every step of the
\* walk is an edge of the graph from the predecessor to the vertex.
C21_BestPathFailsNoAssertion ==
    JustComputedBestPath =>
        /\ ret.result.failed = "no"
        /\ LET sorted == ret.result.topologicallySortedVertices
               vertexTable == ret.result.vertexTable
               longestPath == ret.result.longestPath
           IN
           /\ Len(sorted) = Len(vertices)
           /\ Range(sorted) = VertexDescriptors
           /\ \A e \in SpanningTreeEdges :
                 PlaceIn(sorted, edges[e].source) < PlaceIn(sorted, edges[e].target)
           /\ DOMAIN vertexTable = VertexDescriptors
           /\ \A v \in VertexDescriptors :
                 vertexTable[v].first # null_vertex =>
                    /\ vertexTable[v].first \in VertexDescriptors
                    /\ vertexTable[vertexTable[v].first].second <
                           vertexTable[v].second
           /\ Len(longestPath) = ret.result.lastPathVertexDistance
           /\ Len(longestPath) < Len(vertices) \/ vertices = <<>>
           /\ \A i \in 1 .. Len(longestPath) :
                 /\ longestPath[i] \in EdgeIds
                 /\ vertexTable[edges[longestPath[i]].target].first =
                        edges[longestPath[i]].source

\* The best path has just been computed, through two spanning tree edges, on
\* a graph with a directed cycle: two of its edges are antiparallel.
C21_Witness ==
    /\ JustComputedBestPath
    /\ ret.result.failed = "no"
    /\ HasAntiparallelEdges
    /\ SpanningTreeEdges # {}
    /\ Len(ret.result.longestPath) = 2

\* The edges marked as spanning tree edges after the step.
SpanningTreeEdgesAfter == {e \in EdgeIds : edges'[e].isSpanningTreeEdge}

\* The edges accepted by a run that examines the edges in the order of
\* edgeTable, starting from sets of one vertex each: an edge is accepted when
\* the edges examined before it do not join its two vertices.
AcceptedBy(edgeTable) ==
    {edgeTable[i].first : i \in
        {j \in 1 .. Len(edgeTable) :
            ~ConnectedBy({edgeTable[h].first : h \in 1 .. (j - 1)},
                         edges[edgeTable[j].first].source,
                         edges[edgeTable[j].first].target)}}

\* A step of computeOptimalSpanningTree, whatever the flags were before it.
SpanningTreeStep ==
    ret'.op = "computeOptimalSpanningTree" =>
        /\ vertices' = vertices
        /\ vertexMap' = vertexMap
        /\ Len(edges') = Len(edges)
        /\ \A e \in EdgeIds :
              [edges'[e] EXCEPT !.isSpanningTreeEdge = FALSE] =
              [edges[e] EXCEPT !.isSpanningTreeEdge = FALSE]
        /\ \A i \in 1 .. Len(ret'.edgeTable) :
              ret'.edgeTable[i].second = coverage(edges[ret'.edgeTable[i].first])
        /\ SpanningTreeEdgesAfter = AcceptedBy(ret'.edgeTable)
        /\ HasNoUndirectedCycle(SpanningTreeEdgesAfter)
        /\ Cardinality(SpanningTreeEdgesAfter) =
              Len(vertices) - Cardinality(ComponentsOf(EdgeIds))
        /\ \A F \in SUBSET EdgeIds :
              HasNoUndirectedCycle(F) =>
                  TotalCoverage(SpanningTreeEdgesAfter) >= TotalCoverage(F)
        /\ JustComputedTree =>
              /\ Cardinality(SpanningTreeEdgesAfter) =
                    Cardinality(SpanningTreeEdges)
              /\ TotalCoverage(SpanningTreeEdgesAfter) =
                    TotalCoverage(SpanningTreeEdges)

\* C22: computeOptimalSpanningTree clears every isSpanningTreeEdge first, so
\* the edges marked after a run are the edges that run accepted, whatever was
\* marked before: a spanning forest of the size and of the total coverage that
\* the graph and the coverages fix.  A second run in a row marks a forest of
\* the same size and total coverage, and a run made after the coverages
\* changed leaves no mark of the earlier run.  The run changes no vertex, no
\* infos and no isSpanningTreeBestPathEdge.
C22_SpanningTreeIgnoresEarlierFlags == [][SpanningTreeStep]_vars

\* The tree has just been computed again on a graph without parallel edges:
\* an edge that an earlier run marked, and that the best path then went
\* through, is not marked any more, and an edge of greater coverage is.
C22_Witness ==
    /\ JustComputedTree
    /\ NoParallelEdges
    /\ \E e \in BestPathEdges \ SpanningTreeEdges, f \in SpanningTreeEdges :
          coverage(edges[f]) > coverage(edges[e])

\* C23: on a graph with parallel edges, every edge of the path that
\* computeOptimalSpanningTreeBestPath found and marked is a spanning tree
\* edge: the edge taken for a step from v0 to v1 is the edge between them that
\* has isSpanningTreeEdge, not a parallel edge left out of the spanning tree.
C23_MarkedEdgesAreSpanningTreeEdges ==
    BestPathDone /\ ~NoParallelEdges =>
        \A e \in Range(ret.result.longestPath) :
            /\ edges[e].isSpanningTreeBestPathEdge
            /\ edges[e].isSpanningTreeEdge

\* The edges marked as best path edges after the step.
BestPathEdgesAfter == {e \in EdgeIds : edges'[e].isSpanningTreeBestPathEdge}

\* A step of computeOptimalSpanningTreeBestPath made right after
\* computeOptimalSpanningTree on a graph without parallel edges: the edges
\* marked after it are the edges of the path it found, spanning tree edges
\* that follow one another.
BestPathStepAfterSpanningTree ==
    (/\ JustComputedTree
     /\ NoParallelEdges
     /\ ret'.op = "computeOptimalSpanningTreeBestPath"
     /\ ret'.result.failed = "no") =>
        LET longestPath == ret'.result.longestPath IN
        /\ BestPathEdgesAfter = Range(longestPath)
        /\ \A e \in BestPathEdgesAfter : edges'[e].isSpanningTreeEdge
        /\ \A i \in 1 .. (Len(longestPath) - 1) :
              edges[longestPath[i]].target = edges[longestPath[i + 1]].source

\* C24: when every computeOptimalSpanningTreeBestPath is run right after a
\* computeOptimalSpanningTree on the current coverages, the edges with
\* isSpanningTreeBestPathEdge are exactly the edges of the path found by the
\* last computeOptimalSpanningTreeBestPath: spanning tree edges that form one
\* directed chain, none of them marked by an earlier run only.  It is stated
\* here for the graphs without parallel edges, where every edge the last run
\* marked is a spanning tree edge.
C24_BestPathFlagsAreOfTheLastRun == [][BestPathStepAfterSpanningTree]_vars

====
